---- MODULE Spec2Model ----
(***************************************************************************)
(* Model of src/network_analyzer_reader.py: NetworkAnalyzerReader.         *)
(*                                                                         *)
(* Three threads of control share the object: the reader thread            *)
(* (read_loop), the processor thread (process_loop) and the main thread    *)
(* (run).  Signal handlers run on the main thread and set stop_event.      *)
(*                                                                         *)
(* Numbers.  Frequencies, magnitudes and times are fixed-point integers in *)
(* thousandths of the unit (Hz, dB, s).  The "%.2f" formatting of the      *)
(* summary row is modelled by Fmt2 (hundredths), strftime("%S") by SecOf   *)
(* (whole seconds) and int(freq_hz) by IntTrunc (truncation toward zero).  *)
(* Python sequences are 0-based; the model's are 1-based.                  *)
(***************************************************************************)
EXTENDS Integers, Sequences, FiniteSets, TLC

VARIABLES
    stop_event,        \* threading.Event: TRUE when set
    data_queue,        \* queue.Queue: the items put and not yet got, FIFO
    unfinished_tasks,  \* queue.Queue's counter behind task_done()/join()
    session_open,      \* self.session has not been closed
    rm_open,           \* self.rm has not been closed
    summary_file,      \* summary.csv: NoFile or its sequence of rows
    raw_files,         \* the raw CSV files: path -> rows (a set of records)
    read_count,        \* self.read_count
    baseline_time,     \* self.baseline_time (None or a time)
    baseline_freq,     \* self.baseline_freq (None or a frequency)
    now,               \* the wall clock read by datetime.now()
    rpc,               \* reader thread: position in read_loop
    polls,             \* reader thread: iterations of read_loop begun
    r_results,         \* reader thread: local `results`
    r_x_values,        \* reader thread: local `x_values`
    ppc,               \* processor thread: position in process_loop
    p_item,            \* processor thread: (timestamp, x_values, results) got
    p_min,             \* processor thread: locals min_val, idx, freq_at_min
    p_raw_path,        \* processor thread: local raw_path
    p_error,           \* processor thread: the exception that ended it
    mpc,               \* main thread: position in run()
    enqueued,          \* history: the sweeps put on the queue, in put order
    failed_polls,      \* history: the polls whose instrument I/O raised
    appended,          \* history: the completed _append_summary calls
    raw_written,       \* history: polls whose _write_raw_csv completed
    done_polls,        \* history: polls for which task_done() was called
    enq_at_stop,       \* history: Len(enqueued) when stop_event was first set
    setup_calls,       \* history: calls of _setup_data_dir_and_summary
    m_error,           \* main thread: the close call whose exception left run()
    signals            \* history: signals delivered (0, 1, or 2 for two or more)

vars == << stop_event, data_queue, unfinished_tasks, session_open, rm_open,
           summary_file, raw_files, read_count, baseline_time, baseline_freq,
           now, rpc, polls, r_results, r_x_values, ppc, p_item, p_min,
           p_raw_path, p_error, mpc, enqueued, failed_polls, appended,
           raw_written, done_polls, enq_at_stop, setup_calls, m_error,
           signals >>

(***************************************************************************)
(* Bounds of the model.                                                    *)
(***************************************************************************)
\* read_loop iterations explored
MaxPolls == 3

\* _append_summary / setup calls explored by the ledger specification
MaxLedgerCalls == 2

\* Python's None, and Some(v) for a field that holds v
None == << >>

Some(v) == << v >>

\* A path that does not exist, and a file holding `rows`
NoFile == [exists |-> FALSE, rows |-> << >>]

File(rows) == [exists |-> TRUE, rows |-> rows]

\* What the instrument may answer to CALC1:MEAS1:DATA:FDATA? (magnitudes)
MagAnswers == { << 3000, -5000, -5000, 2000 >>, << -1000 >>, << >> }

\* What the instrument may answer to CALC1:MEAS1:X:VAL? (frequencies)
FreqAnswers == { << 1000, 2000, 3000, 4000 >>, << 0, 2700 >> }

\* Advance of the wall clock between two datetime.now() readings, in
\* thousandths of a second: successive sweeps are stamped 0.404 s apart, so
\* two fall in one second and the third in the next
ClockSteps == { 404 }

(***************************************************************************)
(* Pure helpers.                                                           *)
(***************************************************************************)
Abs(v) == IF v < 0 THEN -v ELSE v

Sign(v) == IF v < 0 THEN -1 ELSE 1

\* f"{v:.2f}": thousandths rounded to the nearest hundredth
Fmt2(v) == Sign(v) * ((Abs(v) + 5) \div 10)

\* timestamp.strftime(... %S): the time cut to whole seconds
SecOf(t) == t \div 1000

\* Python's round(v): to the nearest integer, a tie going to the even one
PyRound(v) ==
    LET q == Abs(v) \div 1000
        r == Abs(v) % 1000
    IN  Sign(v) * (IF r > 500 \/ (r = 500 /\ q % 2 = 1) THEN q + 1 ELSE q)

\* Mutant of IntTrunc: round(freq_hz) in place of int(freq_hz)
IntTrunc_Round(v) == PyRound(v)

\* int(freq_hz): truncation toward zero
IntTrunc(v) == Sign(v) * (Abs(v) \div 1000)

RECURSIVE SeqMin(_)
\* min(results) of a non-empty sequence
SeqMin(s) ==
    IF Len(s) = 1 THEN s[1]
    ELSE LET m == SeqMin(Tail(s)) IN IF s[1] <= m THEN s[1] ELSE m

\* Mutant of Index: the highest index holding v
Index_Last(s, v) == CHOOSE i \in 1..Len(s) : s[i] = v /\ \A j \in (i + 1)..Len(s) : s[j] # v

\* results.index(v): the lowest index holding v
Index(s, v) == CHOOSE i \in 1..Len(s) : s[i] = v /\ \A j \in 1..(i - 1) : s[j] # v

\* zip(x_values, results): pairs up to the shorter length
Zip(xs, ys) ==
    LET n == IF Len(xs) <= Len(ys) THEN Len(xs) ELSE Len(ys)
    IN  [i \in 1..n |-> << xs[i], ys[i] >>]


(***************************************************************************)
(* The summary ledger: summary.csv, read_count and the baseline.           *)
(***************************************************************************)
\* The header row written by _setup_data_dir_and_summary
Header ==
    [kind |-> "header",
     cols |-> << "Timestamp", "ReadCount", "Min_dB", "Frequency_Hz",
                 "TimeDelta_s", "FrequencyShift_Hz" >>]

\* Mutant of SetupDataDirAndSummary: the file is opened 'w' and the header
\* written without the exists() test
SetupDataDirAndSummary_NoExistsTest(file) == File(<< Header >>)

\* _setup_data_dir_and_summary: the file is created, with the header, only
\* when summary_path does not exist
SetupDataDirAndSummary(file) ==
    IF ~file.exists THEN File(<< Header >>) ELSE file

\* `a or b` on an optional number: None and 0.0 are both falsy
PyOr(a, b) == IF a = None THEN b ELSE IF a[1] = 0 THEN b ELSE a[1]

\* time_delta of _append_summary, rc being read_count after the increment
TimeDelta(rc, timestamp, base_time) ==
    IF rc = 1 THEN 0 ELSE timestamp - base_time[1]

\* freq_shift of _append_summary, rc being read_count after the increment
FreqShift(rc, freq_hz, base_freq) ==
    IF rc = 1 THEN 0 ELSE freq_hz - PyOr(base_freq, freq_hz)

\* The row _append_summary hands to writer.writerow
SummaryRow(timestamp, rc, mag_db, freq_hz, time_delta, freq_shift) ==
    [kind              |-> "data",
     Timestamp         |-> SecOf(timestamp),
     ReadCount         |-> rc,
     Min_dB            |-> Fmt2(mag_db),
     Frequency_Hz      |-> Fmt2(freq_hz),
     TimeDelta_s       |-> Fmt2(time_delta),
     FrequencyShift_Hz |-> Fmt2(freq_shift)]

\* read_count after `self.read_count += 1`
NextReadCount(rc) == rc + 1

\* open(summary_path, 'a') followed by writerow: the row goes to the end of
\* the file, which is created when it does not exist
AppendRow(file, row) == File(Append(file.rows, row))

\* Mutant of AppendSummary: the baseline is stored on every call, not only
\* when read_count is 1
AppendSummary_Rebase(timestamp, freq_hz, mag_db, io_ok) ==
    LET rc == NextReadCount(read_count)
        bt == Some(timestamp)
        bf == Some(freq_hz)
        td == TimeDelta(rc, timestamp, bt)
        fs == FreqShift(rc, freq_hz, bf)
    IN  /\ read_count' = rc
        /\ baseline_time' = bt
        /\ baseline_freq' = bf
        /\ summary_file' =
              IF io_ok
              THEN AppendRow(summary_file,
                             SummaryRow(timestamp, rc, mag_db, freq_hz, td, fs))
              ELSE summary_file

\* _append_summary(timestamp, freq_hz, mag_db).  io_ok = FALSE is the open or
\* the write raising: the counter and the baseline are already updated, no
\* row is written, and the exception leaves the method.
AppendSummary(timestamp, freq_hz, mag_db, io_ok) ==
    LET rc == NextReadCount(read_count)
        bt == IF rc = 1 THEN Some(timestamp) ELSE baseline_time
        bf == IF rc = 1 THEN Some(freq_hz) ELSE baseline_freq
        td == TimeDelta(rc, timestamp, bt)
        fs == FreqShift(rc, freq_hz, bf)
    IN  /\ read_count' = rc
        /\ baseline_time' = bt
        /\ baseline_freq' = bf
        /\ summary_file' =
              IF io_ok
              THEN AppendRow(summary_file,
                             SummaryRow(timestamp, rc, mag_db, freq_hz, td, fs))
              ELSE summary_file

(***************************************************************************)
(* The raw sweep store.                                                    *)
(***************************************************************************)
\* _generate_raw_path: "{%Y%m%d_%H%M%S}_{int(freq_hz)}Hz.csv"
GenerateRawPath(timestamp, freq_hz) ==
    [timestr |-> SecOf(timestamp), hz |-> IntTrunc(freq_hz)]

\* _write_raw_csv: open(path, 'w') replaces whatever the path held
WriteRawCsv(files, path, x_values, results) ==
    { f \in files : f.path # path }
        \cup { [path   |-> path,
                header |-> << "Frequency (Hz)", "Magnitude (dB)" >>,
                rows   |-> Zip(x_values, results)] }

(***************************************************************************)
(* The hand-off queue (queue.Queue) and the stop flag.                     *)
(***************************************************************************)
\* Queue.put: the item goes to the back
QueuePut(q, item) == Append(q, item)

\* Mutant of QueueFront: the most recent item is returned (a LIFO queue)
QueueFront_Lifo(q) == q[Len(q)]

\* Queue.get: the item at the front is returned ...
QueueFront(q) == Head(q)

\* ... and removed
QueueRest(q) == Tail(q)

\* Mutant of JoinReturns: run() does not wait for the queue
JoinReturns_NoWait == TRUE

\* Queue.join returns when every item put has been marked task_done
JoinReturns == unfinished_tasks = 0

\* Mutant of ReadLoopContinues: the loop does not test the flag
ReadLoopContinues_NoTest == TRUE

\* The loop condition of read_loop (line 106)
ReadLoopContinues == ~stop_event

\* The exit condition of process_loop (line 120)
ProcessLoopExits == stop_event /\ Len(data_queue) = 0

\* Daemon threads run only while the process lives
Alive == mpc # "exited"

\* Outcomes of one instrument I/O call (TRUE: it returns, FALSE: it raises);
\* on a closed session it can only raise
IoOutcomes == IF session_open THEN { TRUE, FALSE } ELSE { FALSE }

\* Outcomes of one file operation (TRUE: it returns, FALSE: it raises)
FileOutcomes == { TRUE, FALSE }

(***************************************************************************)
(* Initial state: __init__ has run against an empty data directory and     *)
(* run() has installed the handlers and started both threads.              *)
(***************************************************************************)
Init ==
    /\ stop_event = FALSE
    /\ data_queue = << >>
    /\ unfinished_tasks = 0
    /\ session_open = TRUE
    /\ rm_open = TRUE
    /\ summary_file = SetupDataDirAndSummary(NoFile)
    /\ raw_files = { }
    /\ read_count = 0
    /\ baseline_time = None
    /\ baseline_freq = None
    /\ now = 0
    /\ rpc = "top"
    /\ polls = 0
    /\ r_results = << >>
    /\ r_x_values = << >>
    /\ ppc = "check"
    /\ p_item = None
    /\ p_min = None
    /\ p_raw_path = None
    /\ p_error = "none"
    /\ mpc = "sleep"
    /\ enqueued = << >>
    /\ failed_polls = { }
    /\ appended = << >>
    /\ raw_written = << >>
    /\ done_polls = << >>
    /\ enq_at_stop = None
    /\ setup_calls = 1
    /\ m_error = "none"
    /\ signals = 0

ledgerVars == << summary_file, read_count, baseline_time, baseline_freq >>

readerVars == << rpc, polls, r_results, r_x_values, failed_polls >>

procVars == << ppc, p_item, p_min, p_raw_path, p_error, appended, raw_written,
               done_polls, raw_files >>

mainVars == << mpc, session_open, rm_open, m_error >>

(***************************************************************************)
(* The reader thread: read_loop.                                           *)
(***************************************************************************)
\* Mutant of AfterInstrumentError: the except clause leaves the loop
AfterInstrumentError_Break == "done"

\* Where read_loop goes when the try block raises: the except clause logs and
\* falls through to the wait (lines 113-115)
AfterInstrumentError == "wait"

\* Line 106: the loop test; a new iteration begins while the flag is clear
ReadTop ==
    /\ Alive /\ rpc = "top"
    /\ IF ReadLoopContinues
       THEN /\ polls < MaxPolls
            /\ polls' = polls + 1
            /\ rpc' = "trigger"
       ELSE /\ rpc' = "done"
            /\ UNCHANGED polls
    /\ UNCHANGED << stop_event, data_queue, unfinished_tasks, now, enqueued,
                    enq_at_stop, setup_calls, signals, r_results, r_x_values,
                    failed_polls >>
    /\ UNCHANGED << ledgerVars, procVars, mainVars >>

\* Line 108: perform_single_sweep (write, then query *OPC?)
ReadTrigger ==
    /\ Alive /\ rpc = "trigger"
    /\ \E ok \in IoOutcomes :
         IF ok
         THEN rpc' = "fdata" /\ UNCHANGED failed_polls
         ELSE rpc' = AfterInstrumentError /\ failed_polls' = failed_polls \cup { polls }
    /\ UNCHANGED << stop_event, data_queue, unfinished_tasks, now, enqueued,
                    enq_at_stop, setup_calls, signals, polls, r_results, r_x_values >>
    /\ UNCHANGED << ledgerVars, procVars, mainVars >>

\* Line 109: results = query_ascii_values("CALC1:MEAS1:DATA:FDATA?")
ReadFData ==
    /\ Alive /\ rpc = "fdata"
    /\ \E ok \in IoOutcomes :
         IF ok
         THEN /\ \E a \in MagAnswers : r_results' = a
              /\ rpc' = "xval"
              /\ UNCHANGED failed_polls
         ELSE /\ rpc' = AfterInstrumentError
              /\ failed_polls' = failed_polls \cup { polls }
              /\ UNCHANGED r_results
    /\ UNCHANGED << stop_event, data_queue, unfinished_tasks, now, enqueued,
                    enq_at_stop, setup_calls, signals, polls, r_x_values >>
    /\ UNCHANGED << ledgerVars, procVars, mainVars >>

\* Line 110: x_values = query_ascii_values("CALC1:MEAS1:X:VAL?")
ReadXVal ==
    /\ Alive /\ rpc = "xval"
    /\ \E ok \in IoOutcomes :
         IF ok
         THEN /\ \E a \in FreqAnswers : r_x_values' = a
              /\ rpc' = "put"
              /\ UNCHANGED << failed_polls, r_results >>
         ELSE /\ rpc' = AfterInstrumentError
              /\ failed_polls' = failed_polls \cup { polls }
              /\ r_results' = << >>
              /\ UNCHANGED r_x_values
    /\ UNCHANGED << stop_event, data_queue, unfinished_tasks, now, enqueued,
                    enq_at_stop, setup_calls, signals, polls >>
    /\ UNCHANGED << ledgerVars, procVars, mainVars >>

\* The tuple read_loop puts on the queue; `poll` is not part of the tuple, it
\* names the iteration that produced it
Sweep(poll, timestamp, x_values, results) ==
    [poll |-> poll, timestamp |-> timestamp, x_values |-> x_values,
     results |-> results]

\* Lines 111-112: timestamp = datetime.now(); data_queue.put(...)
ReadPut ==
    /\ Alive /\ rpc = "put"
    /\ \E d \in ClockSteps : now' = now + d
    /\ LET item == Sweep(polls, now', r_x_values, r_results)
       IN  /\ data_queue' = QueuePut(data_queue, item)
           /\ enqueued' = Append(enqueued, item)
    /\ unfinished_tasks' = unfinished_tasks + 1
    /\ rpc' = "wait"
    /\ r_results' = << >>
    /\ r_x_values' = << >>
    /\ UNCHANGED << stop_event, enq_at_stop, setup_calls, signals, polls, failed_polls >>
    /\ UNCHANGED << ledgerVars, procVars, mainVars >>

\* Lines 115-116: stop_event.wait(interval_s) returns True as soon as the flag
\* is set (break), False when the interval has passed (next iteration)
ReadWait ==
    /\ Alive /\ rpc = "wait"
    /\ rpc' = IF stop_event THEN "done" ELSE "top"
    /\ UNCHANGED << stop_event, data_queue, unfinished_tasks, now, enqueued,
                    enq_at_stop, setup_calls, signals, polls, r_results, r_x_values,
                    failed_polls >>
    /\ UNCHANGED << ledgerVars, procVars, mainVars >>

(***************************************************************************)
(* The processor thread: process_loop.  It has no try block around the     *)
(* processing of an item: an exception there ends the thread ("raised").   *)
(***************************************************************************)
sharedByProc == << stop_event, now, enqueued, enq_at_stop, setup_calls, signals >>

\* Line 120: the loop test
ProcCheck ==
    /\ Alive /\ ppc = "check"
    /\ ppc' = IF ProcessLoopExits THEN "done" ELSE "get"
    /\ UNCHANGED << data_queue, unfinished_tasks, p_item, p_min, p_raw_path,
                    p_error, appended, raw_written, done_polls, raw_files >>
    /\ UNCHANGED << sharedByProc, ledgerVars, readerVars, mainVars >>

\* Mutant of ProcGet: task_done() is called as soon as the item is got
ProcGet_TaskDoneAtGet ==
    /\ Alive /\ ppc = "get"
    /\ IF Len(data_queue) > 0
       THEN /\ p_item' = Some(QueueFront(data_queue))
            /\ data_queue' = QueueRest(data_queue)
            /\ unfinished_tasks' = unfinished_tasks - 1
            /\ ppc' = "min"
       ELSE /\ ppc' = "check"
            /\ UNCHANGED << p_item, data_queue, unfinished_tasks >>
    /\ UNCHANGED << p_min, p_raw_path, p_error, appended,
                    raw_written, done_polls, raw_files >>
    /\ UNCHANGED << sharedByProc, ledgerVars, readerVars, mainVars >>

\* Lines 121-124: data_queue.get(timeout=1); queue.Empty leads back to the test
ProcGet ==
    /\ Alive /\ ppc = "get"
    /\ IF Len(data_queue) > 0
       THEN /\ p_item' = Some(QueueFront(data_queue))
            /\ data_queue' = QueueRest(data_queue)
            /\ ppc' = "min"
       ELSE /\ ppc' = "check"
            /\ UNCHANGED << p_item, data_queue >>
    /\ UNCHANGED << unfinished_tasks, p_min, p_raw_path, p_error, appended,
                    raw_written, done_polls, raw_files >>
    /\ UNCHANGED << sharedByProc, ledgerVars, readerVars, mainVars >>

\* Lines 126-128: min_val, idx and freq_at_min of a sweep
MinimumPoint(x_values, results) ==
    LET min_val == SeqMin(results)
        idx     == Index(results, min_val)
    IN  [min_val |-> min_val, idx |-> idx, freq_at_min |-> x_values[idx]]

\* Lines 126-128.  min() of an empty sequence raises ValueError, and
\* x_values[idx] raises IndexError when x_values is the shorter sequence.
ProcMin ==
    /\ Alive /\ ppc = "min"
    /\ LET results  == p_item[1].results
           x_values == p_item[1].x_values
       IN  IF Len(results) = 0
           THEN ppc' = "raised" /\ p_error' = "ValueError" /\ UNCHANGED p_min
           ELSE IF Index(results, SeqMin(results)) > Len(x_values)
           THEN ppc' = "raised" /\ p_error' = "IndexError" /\ UNCHANGED p_min
           ELSE /\ p_min' = Some(MinimumPoint(x_values, results))
                /\ ppc' = "raw"
                /\ UNCHANGED p_error
    /\ UNCHANGED << data_queue, unfinished_tasks, p_item, p_raw_path, appended,
                    raw_written, done_polls, raw_files >>
    /\ UNCHANGED << sharedByProc, ledgerVars, readerVars, mainVars >>

\* Lines 130-131: raw_path = _generate_raw_path(...); _write_raw_csv(...).
\* A failing open leaves the store as it was and the exception ends the thread.
ProcWriteRaw ==
    /\ Alive /\ ppc = "raw"
    /\ LET path == GenerateRawPath(p_item[1].timestamp, p_min[1].freq_at_min)
       IN  /\ p_raw_path' = Some(path)
           /\ \E ok \in FileOutcomes :
                IF ok
                THEN /\ raw_files' = WriteRawCsv(raw_files, path,
                                                 p_item[1].x_values, p_item[1].results)
                     /\ raw_written' = Append(raw_written, p_item[1].poll)
                     /\ ppc' = "append"
                     /\ UNCHANGED p_error
                ELSE /\ ppc' = "raised"
                     /\ p_error' = "raw"
                     /\ UNCHANGED << raw_files, raw_written >>
    /\ UNCHANGED << data_queue, unfinished_tasks, p_item, p_min, appended, done_polls >>
    /\ UNCHANGED << sharedByProc, ledgerVars, readerVars, mainVars >>

\* What the history keeps of one completed _append_summary call
AppendCall(poll, timestamp, freq_hz, mag_db) ==
    [poll |-> poll, timestamp |-> timestamp, freq_hz |-> freq_hz, mag_db |-> mag_db]

\* Line 132: _append_summary(timestamp, freq_at_min, min_val)
ProcAppend ==
    /\ Alive /\ ppc = "append"
    /\ \E ok \in FileOutcomes :
         /\ AppendSummary(p_item[1].timestamp, p_min[1].freq_at_min,
                          p_min[1].min_val, ok)
         /\ IF ok
            THEN /\ appended' = Append(appended,
                                       AppendCall(p_item[1].poll, p_item[1].timestamp,
                                                  p_min[1].freq_at_min, p_min[1].min_val))
                 /\ ppc' = "task_done"
                 /\ UNCHANGED p_error
            ELSE /\ ppc' = "raised"
                 /\ p_error' = "summary"
                 /\ UNCHANGED appended
    /\ UNCHANGED << data_queue, unfinished_tasks, p_item, p_min, p_raw_path,
                    raw_written, done_polls, raw_files >>
    /\ UNCHANGED << sharedByProc, readerVars, mainVars >>

\* Lines 134-137: the status line, then data_queue.task_done()
ProcTaskDone ==
    /\ Alive /\ ppc = "task_done"
    /\ unfinished_tasks' = unfinished_tasks - 1
    /\ done_polls' = Append(done_polls, p_item[1].poll)
    /\ p_item' = None
    /\ p_min' = None
    /\ p_raw_path' = None
    /\ ppc' = "check"
    /\ UNCHANGED << data_queue, p_error, appended, raw_written, raw_files >>
    /\ UNCHANGED << sharedByProc, ledgerVars, readerVars, mainVars >>

(***************************************************************************)
(* The main thread: run(), the signal handlers, and the end of the process.*)
(***************************************************************************)
sharedByMain == << data_queue, unfinished_tasks, now, enqueued, setup_calls >>

\* Mutant of Signal: a signal that finds the flag already set ends the process
Signal_SecondExits ==
    /\ Alive
    /\ stop_event' = TRUE
    /\ enq_at_stop' = IF stop_event THEN enq_at_stop ELSE Some(Len(enqueued))
    /\ signals' = IF signals = 0 THEN 1 ELSE 2
    /\ mpc' = IF stop_event THEN "exited" ELSE mpc
    /\ UNCHANGED << session_open, rm_open, m_error >>
    /\ UNCHANGED << sharedByMain, ledgerVars, readerVars, procVars >>

\* Lines 141-142: SIGINT or SIGTERM is delivered; the handler sets the flag
Signal ==
    /\ Alive
    /\ stop_event' = TRUE
    /\ enq_at_stop' = IF stop_event THEN enq_at_stop ELSE Some(Len(enqueued))
    /\ signals' = IF signals = 0 THEN 1 ELSE 2
    /\ UNCHANGED << sharedByMain, ledgerVars, readerVars, procVars, mainVars >>

\* Lines 150-151: the sleep loop ends once the flag is set; finally begins
MainSleep ==
    /\ mpc = "sleep"
    /\ stop_event
    /\ mpc' = "join"
    /\ UNCHANGED << stop_event, enq_at_stop, signals, session_open, rm_open, m_error >>
    /\ UNCHANGED << sharedByMain, ledgerVars, readerVars, procVars >>

\* Line 156: data_queue.join()
MainJoin ==
    /\ mpc = "join"
    /\ JoinReturns
    /\ mpc' = "close_session"
    /\ UNCHANGED << stop_event, enq_at_stop, signals, session_open, rm_open, m_error >>
    /\ UNCHANGED << sharedByMain, ledgerVars, readerVars, procVars >>

\* Line 157: session.close(); when it raises, the exception leaves run()
MainCloseSession ==
    /\ mpc = "close_session"
    /\ \E ok \in { TRUE, FALSE } :
         IF ok
         THEN session_open' = FALSE /\ mpc' = "close_rm" /\ UNCHANGED m_error
         ELSE mpc' = "raised" /\ m_error' = "session.close" /\ UNCHANGED session_open
    /\ UNCHANGED << stop_event, enq_at_stop, signals, rm_open >>
    /\ UNCHANGED << sharedByMain, ledgerVars, readerVars, procVars >>

\* Lines 158-159: rm.close(), the last log line, and run() returns
MainCloseRm ==
    /\ mpc = "close_rm"
    /\ \E ok \in { TRUE, FALSE } :
         IF ok
         THEN rm_open' = FALSE /\ mpc' = "closed" /\ UNCHANGED m_error
         ELSE mpc' = "raised" /\ m_error' = "rm.close" /\ UNCHANGED rm_open
    /\ UNCHANGED << stop_event, enq_at_stop, signals, session_open >>
    /\ UNCHANGED << sharedByMain, ledgerVars, readerVars, procVars >>

\* main() returns (or the exception reaches the top): the interpreter exits
\* and its daemon threads stop wherever they are
ProcessExit ==
    /\ mpc \in { "closed", "raised" }
    /\ mpc' = "exited"
    /\ UNCHANGED << stop_event, enq_at_stop, signals, session_open, rm_open, m_error >>
    /\ UNCHANGED << sharedByMain, ledgerVars, readerVars, procVars >>

Next ==
    \/ ReadTop \/ ReadTrigger \/ ReadFData \/ ReadXVal \/ ReadPut \/ ReadWait
    \/ ProcCheck \/ ProcGet \/ ProcMin \/ ProcWriteRaw \/ ProcAppend \/ ProcTaskDone
    \/ Signal \/ MainSleep \/ MainJoin \/ MainCloseSession \/ MainCloseRm
    \/ ProcessExit

Spec == Init /\ [][Next]_vars

(***************************************************************************)
(* The ledger on its own: the data directory starts empty, processes are   *)
(* constructed one after another against it (__init__), and each calls     *)
(* _setup_data_dir_and_summary and _append_summary with arguments drawn    *)
(* from small sets.                                                        *)
(***************************************************************************)
LedgerTimes == { 404, 1212 }

LedgerFreqs == { 0, 2700 }

LedgerMags == { -5000 }

LedgerInit ==
    /\ stop_event = FALSE
    /\ data_queue = << >>
    /\ unfinished_tasks = 0
    /\ session_open = TRUE
    /\ rm_open = TRUE
    /\ summary_file = NoFile
    /\ raw_files = { }
    /\ read_count = 0
    /\ baseline_time = None
    /\ baseline_freq = None
    /\ now = 0
    /\ rpc = "unstarted"
    /\ polls = 0
    /\ r_results = << >>
    /\ r_x_values = << >>
    /\ ppc = "unstarted"
    /\ p_item = None
    /\ p_min = None
    /\ p_raw_path = None
    /\ p_error = "none"
    /\ mpc = "unstarted"
    /\ enqueued = << >>
    /\ failed_polls = { }
    /\ appended = << >>
    /\ raw_written = << >>
    /\ done_polls = << >>
    /\ enq_at_stop = None
    /\ setup_calls = 0
    /\ m_error = "none"
    /\ signals = 0

notLedger == << stop_event, data_queue, unfinished_tasks, session_open, rm_open,
                raw_files, now, rpc, polls, r_results, r_x_values, ppc, p_item,
                p_min, p_raw_path, p_error, mpc, enqueued, failed_polls,
                raw_written, done_polls, enq_at_stop, m_error, signals >>

\* Lines 36-43: a new process constructs the object against the directory
LedgerConstruct ==
    /\ setup_calls < MaxLedgerCalls
    /\ summary_file' = SetupDataDirAndSummary(summary_file)
    /\ read_count' = 0
    /\ baseline_time' = None
    /\ baseline_freq' = None
    /\ setup_calls' = setup_calls + 1
    /\ UNCHANGED << appended, notLedger >>

\* Lines 45-54: _setup_data_dir_and_summary called again on the same object
LedgerSetup ==
    /\ setup_calls >= 1
    /\ setup_calls < MaxLedgerCalls
    /\ summary_file' = SetupDataDirAndSummary(summary_file)
    /\ setup_calls' = setup_calls + 1
    /\ UNCHANGED << read_count, baseline_time, baseline_freq, appended, notLedger >>

\* Lines 75-96: _append_summary called on the constructed object
LedgerAppend ==
    /\ setup_calls >= 1
    /\ read_count < MaxLedgerCalls
    /\ Len(summary_file.rows) <= MaxLedgerCalls
    /\ \E t \in LedgerTimes, f \in LedgerFreqs, m \in LedgerMags, ok \in FileOutcomes :
         /\ AppendSummary(t, f, m, ok)
         /\ appended' = IF ok THEN Append(appended, AppendCall(0, t, f, m))
                        ELSE appended
    /\ UNCHANGED << setup_calls, notLedger >>

LedgerNext == LedgerConstruct \/ LedgerSetup \/ LedgerAppend

LedgerSpec == LedgerInit /\ [][LedgerNext]_vars

(***************************************************************************)
(* Properties.                                                             *)
(***************************************************************************)
Range(s) == { s[i] : i \in 1..Len(s) }

\* The polls of a sequence of sweeps or of _append_summary calls
PollsOf(s) == [i \in 1..Len(s) |-> s[i].poll]

\* The data rows of summary.csv (everything after the header)
DataRows == Tail(summary_file.rows)

\* run() is past data_queue.join(): it is closing the instrument or has returned
JoinReturned == mpc \in { "close_session", "close_rm", "closed", "raised", "exited" }

\* The sweep of poll k has its raw record written, its summary row appended
\* and task_done() called
FullyProcessed(k) ==
    /\ k \in Range(raw_written)
    /\ k \in Range(PollsOf(appended))
    /\ k \in Range(done_polls)

\* C1 (drain guarantee): once run() is past join(), every sweep that was put on
\* the queue before the stop flag was first set has been fully processed: raw
\* record written, summary row appended, task_done() called.
C1_DrainGuarantee ==
    (JoinReturned /\ enq_at_stop # None) =>
        \A i \in 1..enq_at_stop[1] : FullyProcessed(enqueued[i].poll)

\* C1 witness: run() has returned after a stop that found two sweeps enqueued
C1_Witness ==
    /\ mpc = "closed"
    /\ enq_at_stop = Some(2)
    /\ FullyProcessed(enqueued[2].poll)

\* C2 (ledger order): the rows appended by the run carry ReadCount 1, 2, ..., in
\* the order the sweeps were put on the queue, one row per processed sweep, and
\* the first row has zero time delta and zero frequency shift.
C2_LedgerOrder ==
    /\ Len(DataRows) = Len(appended)
    /\ Len(appended) <= Len(enqueued)
    /\ \A i \in 1..Len(appended) :
         /\ DataRows[i].ReadCount = i
         /\ appended[i].poll = enqueued[i].poll
         /\ DataRows[i].Timestamp = SecOf(enqueued[i].timestamp)
         /\ DataRows[i].Min_dB = Fmt2(SeqMin(enqueued[i].results))
    /\ Len(appended) >= 1 =>
         DataRows[1].TimeDelta_s = 0 /\ DataRows[1].FrequencyShift_Hz = 0
    /\ \A i \in 1..Len(done_polls) : done_polls[i] = enqueued[i].poll
    /\ Len(done_polls) <= Len(appended)
    /\ ppc \in { "check", "get", "done" } => Len(DataRows) = Len(done_polls)

\* C2 witness: three sweeps enqueued and processed, three rows in the ledger
C2_Witness ==
    /\ Len(done_polls) = 3
    /\ Len(DataRows) = 3
    /\ DataRows[3].ReadCount = 3

\* C3 (drift against the baseline): every row after the first holds the time
\* since the first record and the frequency minus the first record's
\* frequency, whatever that frequency is (0 included).
C3_DriftAgainstFirstRecord ==
    \A i \in 2..Len(appended) :
        /\ DataRows[i].TimeDelta_s =
               Fmt2(appended[i].timestamp - appended[1].timestamp)
        /\ DataRows[i].FrequencyShift_Hz =
               Fmt2(appended[i].freq_hz - appended[1].freq_hz)

\* C4 (shutdown completes): once the flag is set and both loops have left on
\* it, run() is not held in join() for ever: nothing is left unfinished, so it
\* goes on to close the instrument and return.
C4_ShutdownCompletes ==
    (stop_event /\ rpc = "done" /\ ppc = "done" /\ mpc = "join") =>
        unfinished_tasks = 0

\* C5 (persistence faults are isolated): process_loop is never ended by a
\* failure to write the raw record or to append the summary row.
C5_PersistenceFaultIsolated ==
    ppc \in { "done", "raised" } => p_error \notin { "raw", "summary" }

\* The number of polls up to k whose instrument I/O did not raise
SuccessfulUpTo(k) == Cardinality({ j \in 1..k : j \notin failed_polls })

\* C6 (fault isolation in the reader): a poll whose instrument I/O raised puts
\* nothing on the queue and does not end read_loop (which ends only on the stop
\* flag), and a recorded sweep carries the number of successful polls so far,
\* i.e. one more than the last successful poll before it.
C6_FaultIsolation ==
    /\ \A i \in 1..Len(enqueued) : enqueued[i].poll \notin failed_polls
    /\ rpc = "done" => stop_event
    /\ polls \in failed_polls => rpc \in { "wait", "top", "done" }
    /\ \A i \in 1..Len(appended) :
         /\ appended[i].poll = enqueued[i].poll
         /\ DataRows[i].ReadCount = SuccessfulUpTo(appended[i].poll)

\* C6 witness: poll 1 succeeded, poll 2 failed, poll 3 succeeded and is
\* recorded as number 2
C6_Witness ==
    /\ failed_polls = { 2 }
    /\ Len(appended) = 2
    /\ appended[2].poll = 3
    /\ DataRows[2].ReadCount = 2

\* No poll appears twice in done_polls
NoRepeat(s) == \A i, j \in 1..Len(s) : s[i] = s[j] => i = j

\* C7 (consumed exactly once): no sweep is processed twice, and when run() has
\* returned every sweep that was put on the queue has been got and processed.
C7_ConsumedExactlyOnce ==
    /\ NoRepeat(done_polls)
    /\ mpc = "closed" =>
         /\ Len(data_queue) = 0
         /\ \A i \in 1..Len(enqueued) : enqueued[i].poll \in Range(done_polls)

\* C8 (close after both loops): the session is closed only when read_loop and
\* process_loop have ended and the queue is empty.
C8_CloseAfterLoopsEnd ==
    ~session_open =>
        /\ rpc = "done"
        /\ ppc \in { "done", "raised" }
        /\ Len(data_queue) = 0

\* C9 (minimum point): for the sweep being processed, idx is the lowest index
\* at which results attains its minimum, min_val is that minimum and
\* freq_at_min is x_values at idx; magnitudes [3, -5, -5, 2] at frequencies
\* [1, 2, 3, 4] give (-5, 2).
C9_MinimumPoint ==
    p_min # None =>
        LET results  == p_item[1].results
            x_values == p_item[1].x_values
            m        == p_min[1]
        IN  /\ m.idx \in 1..Len(results)
            /\ results[m.idx] = m.min_val
            /\ \A j \in 1..Len(results) : results[j] >= m.min_val
            /\ \A j \in 1..(m.idx - 1) : results[j] > m.min_val
            /\ m.freq_at_min = x_values[m.idx]
            /\ (results = << 3000, -5000, -5000, 2000 >>
                /\ x_values = << 1000, 2000, 3000, 4000 >>)
                   => (m.min_val = -5000 /\ m.freq_at_min = 2000)

\* C9 witness: the tie of the example is being processed
C9_Witness ==
    /\ p_min # None
    /\ p_item[1].results = << 3000, -5000, -5000, 2000 >>
    /\ p_item[1].x_values = << 1000, 2000, 3000, 4000 >>
    /\ p_min[1].idx = 2

\* C10 (idempotent setup): however often the setup runs against the same
\* directory, also after rows were appended and by a later process, the file
\* holds exactly one header row, at the top, followed by every row ever
\* appended, in order and unchanged.
C10_IdempotentSetup ==
    setup_calls >= 1 =>
        /\ summary_file.exists
        /\ summary_file.rows[1] = Header
        /\ Cardinality({ i \in 1..Len(summary_file.rows) :
                           summary_file.rows[i].kind = "header" }) = 1
        /\ Len(DataRows) = Len(appended)
        /\ \A i \in 1..Len(appended) :
             /\ DataRows[i].kind = "data"
             /\ DataRows[i].Timestamp = SecOf(appended[i].timestamp)
             /\ DataRows[i].Frequency_Hz = Fmt2(appended[i].freq_hz)
             /\ DataRows[i].Min_dB = Fmt2(appended[i].mag_db)

\* C10 witness: a later process has run the setup against a ledger that
\* already holds appended rows
C10_Witness ==
    /\ setup_calls >= 2
    /\ read_count = 0
    /\ summary_file.exists
    /\ Len(DataRows) >= 1

\* C11 (interruptible wait): once the stop flag is set read_loop begins no
\* new poll, and a reader that is in its wait when the flag is set leaves the
\* loop with its next step.
C11_NoPollAfterStop ==
    [][ /\ stop_event => polls' = polls
        /\ (stop_event /\ rpc = "wait" /\ rpc' # rpc) => rpc' = "done" ]_vars

\* C11 witness: every poll so far was enqueued before the flag was set (the
\* reader was past its put, waiting), and the reader has left the loop with
\* polls still to go
C11_Witness ==
    /\ stop_event
    /\ rpc = "done"
    /\ polls >= 1
    /\ polls < MaxPolls
    /\ failed_polls = { }
    /\ Len(enqueued) = polls
    /\ enq_at_stop = Some(polls)

\* C12 (distinct raw records): every sweep whose raw record was written has a
\* record of its own in the store, so N written sweeps leave N raw records.
C12_DistinctRawRecords ==
    Cardinality(raw_files) = Len(raw_written)

\* The processor thread has ended, by leaving the loop or by an exception
ProcEnded(pc) == pc \in { "done", "raised" }

\* C13 (drain to completion): process_loop ends only in a state where the stop
\* flag is set and the queue is empty.
C13_EndsOnlyStoppedAndEmpty ==
    [][ (~ProcEnded(ppc) /\ ProcEnded(ppc')) =>
            (stop_event /\ Len(data_queue) = 0) ]_vars

\* The minimum frequency of the first sweep put on the queue
FirstFreq ==
    MinimumPoint(enqueued[1].x_values, enqueued[1].results).freq_at_min

\* C14 (baseline set once): the baseline is unset until the first
\* _append_summary call, and from that call on it holds the timestamp and the
\* frequency of that first call, whatever is appended later.
C14_BaselineSetOnce ==
    /\ read_count = 0 => (baseline_time = None /\ baseline_freq = None)
    /\ read_count >= 1 =>
         /\ baseline_time = Some(enqueued[1].timestamp)
         /\ baseline_freq = Some(FirstFreq)

\* C14 witness: a second sweep with another time and frequency was appended
\* and the baseline is still that of the first
C14_Witness ==
    /\ Len(appended) >= 2
    /\ appended[2].freq_hz # appended[1].freq_hz
    /\ appended[2].timestamp # appended[1].timestamp
    /\ baseline_freq = Some(appended[1].freq_hz)
    /\ baseline_time = Some(appended[1].timestamp)

\* C17 (well-formed sweeps): every sweep put on the queue has as many
\* frequencies as magnitudes, and at least one.
C17_SweepWellFormed ==
    \A i \in 1..Len(enqueued) :
        /\ Len(enqueued[i].x_values) = Len(enqueued[i].results)
        /\ Len(enqueued[i].results) >= 1

\* C18 as amended (raw record name): the name of the raw record is fixed by
\* the timestamp and the minimum frequency: its time part is the timestamp cut
\* to the second and its frequency part is the frequency truncated toward
\* zero to an integer.
C18_RawPathTruncates ==
    p_raw_path # None =>
        LET t == p_item[1].timestamp
            f == p_min[1].freq_at_min
            h == p_raw_path[1].hz
        IN  /\ p_raw_path[1].timestr * 1000 <= t
            /\ t < (p_raw_path[1].timestr + 1) * 1000
            /\ Abs(h) * 1000 <= Abs(f)
            /\ Abs(f) < (Abs(h) + 1) * 1000
            /\ h # 0 => Sign(h) = Sign(f)

\* C18 witness: a sweep with its minimum at 2.7 Hz is stored under 2 Hz
C18_Witness ==
    /\ p_raw_path # None
    /\ p_min[1].freq_at_min = 2700
    /\ p_raw_path[1].hz = 2

\* C18 as stated (raw record name): the frequency part of the name is the
\* minimum frequency rounded to the nearest integer.
C18_RawPathRounds ==
    p_raw_path # None => p_raw_path[1].hz = PyRound(p_min[1].freq_at_min)

\* C19 (counter matches ledger): read_count equals the number of summary rows
\* the process has appended.
C19_ReadCountMatchesRows ==
    read_count = Len(DataRows)

\* process_loop holds a dequeued sweep that it has not finished
Processing == ppc \in { "min", "raw", "append", "task_done" }

\* C20 (order within one iteration): a summary row exists only for a sweep
\* whose raw record was written, task_done() is called only after both, and
\* while a dequeued sweep is being processed the queue still counts it as
\* unfinished, so join() cannot return.
C20_IterationOrder ==
    /\ \A i \in 1..Len(appended) : appended[i].poll \in Range(raw_written)
    /\ \A i \in 1..Len(done_polls) :
         /\ done_polls[i] \in Range(raw_written)
         /\ done_polls[i] \in Range(PollsOf(appended))
    /\ ppc = "append" => p_item[1].poll \in Range(raw_written)
    /\ ppc = "task_done" => p_item[1].poll \in Range(PollsOf(appended))
    /\ Processing => (unfinished_tasks >= 1 /\ ~JoinReturns)

\* C20 witness: run() is waiting in join() while the last sweep, written and
\* appended, has not been marked done
C20_Witness ==
    /\ mpc = "join"
    /\ ppc = "task_done"
    /\ unfinished_tasks = 1
    /\ p_item[1].poll \in Range(raw_written)

\* C15 (best-effort release): a failing session.close() does not leave run()
\* by an exception, and the resource manager is still closed before the
\* process ends.
C15_BestEffortRelease ==
    m_error = "session.close" =>
        /\ mpc # "raised"
        /\ mpc = "exited" => ~rm_open

\* Every variable but the count of delivered signals
allButSignals ==
    << stop_event, enq_at_stop, sharedByMain, ledgerVars, readerVars, procVars,
       mainVars >>

\* C16 (idempotent stop): the flag, once set, stays set, and a signal
\* delivered when it is already set changes nothing: the state after the
\* second delivery is the state after the first, and so is everything that
\* follows from it.
C16_SignalIdempotent ==
    [][ /\ stop_event => stop_event'
        /\ (stop_event /\ signals' # signals) => UNCHANGED allButSignals ]_vars

\* C16 witness: two signals were delivered and the run went on to process its
\* sweep and return
C16_Witness ==
    /\ signals = 2
    /\ mpc = "closed"
    /\ Len(done_polls) >= 1

====
